---- MODULE Spec2Model ----
(***************************************************************************)
(* Model of the krustlet join action of kind                               *)
(* (pkg/cluster/internal/create/actions/krustletjoin/join.go) in its two   *)
(* versions: the bootstrap-token recipe runKrustletJoin and the            *)
(* static-kubeconfig recipe runKubeadmJoin.                                *)
(*                                                                         *)
(* Execute lists the nodes, selects the krustlet workers and the control   *)
(* plane nodes, and joinWorkers runs one recipe per worker concurrently.   *)
(* A remote command (Command(...).Run, CombinedOutputLines, WriteFile)     *)
(* blocks its task until it returns, so one step of a task is: issue the   *)
(* command, receive its outcome, and act on the outcome as the code does.  *)
(* Every command is recorded in the log of the task that issued it.        *)
(***************************************************************************)
EXTENDS Integers, Sequences, FiniteSets, TLC

\* Largest number of nodes of the cluster.
MaxNodes == 3

\* for i := 0; i <= 30; i++ (runKrustletJoin)
KrustletPollLimit == 30
\* for i := 0; i <= 10; i++ (runKubeadmJoin)
KubeadmPollLimit == 10

VARIABLES
    variant,    \* which version of the recipe: "bootstrap" or "kubeconfig"
    allNodes,   \* ctx.Nodes(): sequence of [name, role]
    mainpc,     \* position of Execute / joinWorkers
    workers,    \* Execute's local workers
    cpNodes,    \* Execute's local cpNodes
    cpNode,     \* joinWorkers' parameter cpNode (a node name, 0 before the call)
    execRet,    \* the value Execute returned
    status,     \* calls made on ctx.Status, in order
    fns,        \* the closures of joinWorkers: fns[k] is the node closure k captured
    firstErr,   \* the first non-nil error a task delivered to UntilErrorConcurrent
    pc,         \* pc[k]: position of task k in its recipe
    i,          \* i[k]: loop variable of the CSR poll of task k
    ret,        \* ret[k]: the value task k returned
    log,        \* log[k]: the operations task k issued, in order
    bootconf,   \* bootconf[k]: task k's local bootconf
    getErr,     \* getErr[k]: whether kubeconfig.Get returned an error to task k
    cpConf      \* content of /root/.krustlet/config/bootstrap.conf on cpNode

vars == <<variant, allNodes, mainpc, workers, cpNodes, cpNode, execRet, status,
          fns, firstErr, pc, i, ret, log, bootconf, getErr, cpConf>>

Tasks == 1..MaxNodes

Roles == {"control-plane", "krustlet", "worker"}
KrustletNodeRoleValue == "krustlet"
ControlPlaneNodeRoleValue == "control-plane"

\* ---------------------------------------------------------------- values

\* error values: nil, "not returned yet", and errors.Wrap(cause, msg)
NoErr == [msg |-> "nil", cause |-> "nil"]
Pending == [msg |-> "pending", cause |-> "pending"]
Wrap(cause, msg) == [msg |-> msg, cause |-> cause]

\* node.String() + "-tls"
CSRName(node) == <<node, "-tls">>
NoCSR == <<0, "">>

\* file contents
NoContent == <<"", 0>>
AdminKubeconfig == <<"admin kubeconfig", 0>>
GeneratedConf(k) == <<"bootstrap.conf", k>>

Entry(op, target, csr, content, ok) ==
    [op |-> op, target |-> target, csr |-> csr, content |-> content, ok |-> ok]

Sleep == Entry("sleep", 0, NoCSR, NoContent, TRUE)

\* ---------------------------------------------------------------- helpers

\* nodeutils.SelectNodesByRole: the nodes of the role, in order
RECURSIVE SelectNodesByRole(_, _)
SelectNodesByRole(nodes, role) ==
    IF nodes = <<>> THEN <<>>
    ELSE IF Head(nodes).role = role
         THEN <<Head(nodes).name>> \o SelectNodesByRole(Tail(nodes), role)
         ELSE SelectNodesByRole(Tail(nodes), role)

\* kubeconfig.Get(provider, name, false): the content returned with a nil
\* error, the empty string with an error
KubeconfigGet(failed) == IF failed THEN NoContent ELSE AdminKubeconfig

\* the loop without node := node: every closure sees the loop variable, which
\* holds the last worker once the functions run
CaptureLoopVariable(ws) ==
    IF ws = <<>> THEN <<>> ELSE [k \in 1..Len(ws) |-> ws[Len(ws)]]

\* the loop of joinWorkers: node := node; fns = append(fns, func() {... node ...})
RECURSIVE CaptureNodes(_)
CaptureNodes(ws) ==
    IF ws = <<>> THEN <<>> ELSE <<Head(ws)>> \o CaptureNodes(Tail(ws))

\* the bound of the poll loop of each recipe
PollLimit(v) == IF v = "bootstrap" THEN KrustletPollLimit ELSE KubeadmPollLimit

\* the loop condition i <= limit
PollCond(v, n) == n <= PollLimit(v)

\* the first step of each recipe
FirstStep(v) == IF v = "bootstrap" THEN "download" ELSE "write"

\* the recipe with the service started before it is enabled
ContinueStartFirst(step) ==
    CASE step = "download" -> "execute"
      [] step = "execute"  -> "read"
      [] step = "read"     -> "write"
      [] step = "write"    -> "start"
      [] step = "start"    -> "enable"
      [] step = "enable"   -> "poll"

\* the statement that follows a step whose command returned a nil error
Continue(step) ==
    CASE step = "download" -> "execute"
      [] step = "execute"  -> "read"
      [] step = "read"     -> "write"
      [] step = "write"    -> "enable"
      [] step = "enable"   -> "start"
      [] step = "start"    -> "poll"

\* the message each step's failure is wrapped with (the backquotes around
\* systemctl start krustlet are left out of the two last strings)
WrapMsg(step) ==
    CASE step = "download" -> "failed to download krustlet bootstrap token script"
      [] step = "execute"  -> "failed to execute krustlet bootstrap token script"
      [] step = "read"     -> "failed to fetch bootstrap.conf"
      [] step = "write"    -> "failed to write kubeconfig"
      [] step = "enable"   -> "failed to enable krustlet sevice"
      [] step = "start"    -> "failed to run systemctl start krustlet"
      [] step = "approve"  -> "failed to run systemctl start krustlet"

\* ---------------------------------------------------------------- Init

RECURSIVE NamedNodes(_, _)
NamedNodes(roles, n) ==
    IF roles = <<>> THEN <<>>
    ELSE <<[name |-> n, role |-> Head(roles)]>> \o NamedNodes(Tail(roles), n + 1)

NodeSets == UNION {[1..n -> Roles] : n \in 0..MaxNodes}

Init ==
    /\ variant \in {"bootstrap", "kubeconfig"}
    /\ \E roles \in NodeSets : allNodes = NamedNodes(roles, 1)
    /\ mainpc = "Nodes"
    /\ workers = <<>>
    /\ cpNodes = <<>>
    /\ cpNode = 0
    /\ execRet = Pending
    /\ status = <<>>
    /\ fns = <<>>
    /\ firstErr = NoErr
    /\ pc = [k \in Tasks |-> "none"]
    /\ i = [k \in Tasks |-> 0]
    /\ ret = [k \in Tasks |-> Pending]
    /\ log = [k \in Tasks |-> <<>>]
    /\ bootconf = [k \in Tasks |-> NoContent]
    /\ getErr = [k \in Tasks |-> FALSE]
    /\ cpConf = NoContent

taskVars == <<pc, i, ret, log, bootconf, getErr, cpConf, firstErr>>
mainVars == <<mainpc, workers, cpNodes, cpNode, execRet, status, fns>>

\* ---------------------------------------------------------------- Execute

\* allNodes, err := ctx.Nodes(); if err != nil { return err }
ListNodes ==
    /\ mainpc = "Nodes"
    /\ \E ok \in BOOLEAN :
         IF ok THEN mainpc' = "SelectWorkers" /\ execRet' = execRet
         ELSE mainpc' = "returned" /\ execRet' = Wrap("Nodes", "")
    /\ UNCHANGED <<variant, allNodes, workers, cpNodes, cpNode, status, fns>>
    /\ UNCHANGED taskVars

\* workers, err := SelectNodesByRole(allNodes, KrustletNodeRoleValue)
SelectWorkers ==
    /\ mainpc = "SelectWorkers"
    /\ \E ok \in BOOLEAN :
         IF ok
         THEN /\ mainpc' = "SelectCP"
              /\ workers' = SelectNodesByRole(allNodes, KrustletNodeRoleValue)
              /\ execRet' = execRet
         ELSE /\ mainpc' = "returned"
              /\ workers' = workers
              /\ execRet' = Wrap("SelectNodesByRole", "")
    /\ UNCHANGED <<variant, allNodes, cpNodes, cpNode, status, fns>>
    /\ UNCHANGED taskVars

\* cpNodes, err := SelectNodesByRole(allNodes, ControlPlaneNodeRoleValue)
SelectCP ==
    /\ mainpc = "SelectCP"
    /\ \E ok \in BOOLEAN :
         IF ok
         THEN /\ mainpc' = "Branch"
              /\ cpNodes' = SelectNodesByRole(allNodes, ControlPlaneNodeRoleValue)
              /\ execRet' = execRet
         ELSE /\ mainpc' = "returned"
              /\ cpNodes' = cpNodes
              /\ execRet' = Wrap("SelectNodesByRole", "")
    /\ UNCHANGED <<variant, allNodes, workers, cpNode, status, fns>>
    /\ UNCHANGED taskVars

\* joinWorkers called whatever the number of workers
HasWorkersAlways(ws) == TRUE

\* if len(workers) > 0
HasWorkers(ws) == Len(ws) > 0

\* the last control-plane node taken as approver
ApproverNodeLast(cps) == cps[Len(cps)]

\* cpNodes[0]: the first node of the selection (sequences start at 1 here)
ApproverNode(cps) == cps[1]

\* if len(workers) > 0 { joinWorkers(ctx, workers, cpNodes[0]) }; return nil
\* The argument cpNodes[0] is evaluated before the call: an index out of
\* range panics.  joinWorkers then starts the status, builds fns and hands
\* them to UntilErrorConcurrent, which starts every function.
Branch ==
    /\ mainpc = "Branch"
    /\ IF HasWorkers(workers)
       THEN IF Len(cpNodes) = 0
            THEN /\ mainpc' = "panic"
                 /\ UNCHANGED <<cpNode, status, fns, pc, execRet>>
            ELSE /\ mainpc' = "Wait"
                 /\ cpNode' = ApproverNode(cpNodes)
                 /\ status' = Append(status, "Start")
                 /\ fns' = CaptureNodes(workers)
                 /\ pc' = [k \in Tasks |->
                             IF k <= Len(fns') THEN FirstStep(variant) ELSE "none"]
                 /\ execRet' = execRet
       ELSE /\ mainpc' = "returned"
            /\ execRet' = NoErr
            /\ UNCHANGED <<cpNode, status, fns, pc>>
    /\ UNCHANGED <<variant, allNodes, workers, cpNodes>>
    /\ UNCHANGED <<i, ret, log, bootconf, getErr, cpConf, firstErr>>

AllReturned == \A k \in 1..Len(fns) : pc[k] = "returned"

\* errors.UntilErrorConcurrent(fns): the first error any function returned,
\* without waiting for the others, or nil once all returned nil
UntilErrorConcurrentResult == firstErr

CanReturn == firstErr # NoErr \/ AllReturned

\* joinWorkers dropping the error of UntilErrorConcurrent
JoinWorkersReturnNil(err) == NoErr

\* what joinWorkers returns for the result of UntilErrorConcurrent
JoinWorkersReturn(err) == IF err # NoErr THEN err ELSE NoErr

\* joinWorkers without the return on error: End(true) is reached always
JoinWorkersStatusAlwaysTrue(err) == <<"End(true)", "End(false)">>

\* the status calls joinWorkers makes on its way out
JoinWorkersStatus(err) ==
    IF err # NoErr THEN <<"End(false)">> ELSE <<"End(true)", "End(false)">>

\* if err := UntilErrorConcurrent(fns); err != nil { return err }
\* ctx.Status.End(true); return nil      (defer ctx.Status.End(false))
\* and Execute returns what joinWorkers returned
Return ==
    /\ mainpc = "Wait"
    /\ CanReturn
    /\ mainpc' = "returned"
    /\ execRet' = JoinWorkersReturn(UntilErrorConcurrentResult)
    /\ status' = status \o JoinWorkersStatus(UntilErrorConcurrentResult)
    /\ UNCHANGED <<variant, allNodes, workers, cpNodes, cpNode, fns>>
    /\ UNCHANGED taskVars

\* ---------------------------------------------------------------- recipes

\* task k returns err to UntilErrorConcurrent
Deliver(err) == IF firstErr = NoErr THEN err ELSE firstErr

\* a step that gives up its recipe once another recipe delivered an error
StepOutcomeAbortOnPeerError(k, step, ok) ==
    IF ok /\ firstErr = NoErr
    THEN /\ pc' = [pc EXCEPT ![k] = Continue(step)]
         /\ UNCHANGED <<ret, firstErr>>
    ELSE /\ pc' = [pc EXCEPT ![k] = "returned"]
         /\ ret' = [ret EXCEPT ![k] = Wrap(step, WrapMsg(step))]
         /\ firstErr' = Deliver(Wrap(step, WrapMsg(step)))

\* a step that goes on whatever its command returned
StepOutcomeIgnoringError(k, step, ok) ==
    /\ pc' = [pc EXCEPT ![k] = Continue(step)]
    /\ UNCHANGED <<ret, firstErr>>

\* A step that issues one command and returns its wrapped error when it fails
\*   lines, err := exec.CombinedOutputLines(cmd)
\*   if err != nil { return errors.Wrap(err, msg) }
StepOutcome(k, step, ok) ==
    IF ok
    THEN /\ pc' = [pc EXCEPT ![k] = Continue(step)]
         /\ UNCHANGED <<ret, firstErr>>
    ELSE /\ pc' = [pc EXCEPT ![k] = "returned"]
         /\ ret' = [ret EXCEPT ![k] = Wrap(step, WrapMsg(step))]
         /\ firstErr' = Deliver(Wrap(step, WrapMsg(step)))

\* cmd := cpNode.Command("curl", "-sSL", ".../bootstrap.sh")
Download(k) ==
    /\ pc[k] = "download"
    /\ \E ok \in BOOLEAN :
         /\ log' = [log EXCEPT ![k] = Append(@, Entry("download", cpNode, NoCSR, NoContent, ok))]
         /\ StepOutcome(k, "download", ok)
    /\ UNCHANGED <<i, bootconf, getErr, cpConf, variant, allNodes>>
    /\ UNCHANGED mainVars

\* cmd = cpNode.Command("bash", "-c", script): the script generates
\* /root/.krustlet/config/bootstrap.conf; a failing run may or may not have
\* written it
ExecuteScript(k) ==
    /\ pc[k] = "execute"
    /\ \E ok \in BOOLEAN, wrote \in BOOLEAN :
         /\ ok => wrote
         /\ log' = [log EXCEPT ![k] = Append(@, Entry("execute", cpNode, NoCSR, NoContent, ok))]
         /\ cpConf' = IF wrote THEN GeneratedConf(k) ELSE cpConf
         /\ StepOutcome(k, "execute", ok)
    /\ UNCHANGED <<i, bootconf, getErr, variant, allNodes>>
    /\ UNCHANGED mainVars

\* cmd = cpNode.Command("cat", "/root/.krustlet/config/bootstrap.conf")
Read(k) ==
    /\ pc[k] = "read"
    /\ \E ok \in BOOLEAN :
         /\ log' = [log EXCEPT ![k] = Append(@, Entry("read", cpNode, NoCSR, NoContent, ok))]
         /\ bootconf' = [bootconf EXCEPT ![k] = IF ok THEN cpConf ELSE @]
         /\ StepOutcome(k, "read", ok)
    /\ UNCHANGED <<i, getErr, cpConf, variant, allNodes>>
    /\ UNCHANGED mainVars

\* bootstrap:  err = nodeutils.WriteFile(node, "/etc/kubernetes/bootstrap-kubelet.conf", bootconf)
\* kubeconfig: config, _ := kubeconfig.Get(provider, name, false)
\*             err := nodeutils.WriteFile(node, "/etc/kubernetes/kubeconfig", config)
\* The error of kubeconfig.Get is discarded; getErr[k] remembers it.
Write(k) ==
    /\ pc[k] = "write"
    /\ \E failed \in BOOLEAN, ok \in BOOLEAN :
         /\ variant = "bootstrap" => ~failed
         /\ getErr' = [getErr EXCEPT ![k] = failed]
         /\ log' = [log EXCEPT ![k] = Append(@,
                Entry("write", fns[k], NoCSR,
                      IF variant = "bootstrap" THEN bootconf[k]
                      ELSE KubeconfigGet(failed), ok))]
         /\ StepOutcome(k, "write", ok)
    /\ UNCHANGED <<i, bootconf, cpConf, variant, allNodes>>
    /\ UNCHANGED mainVars

\* cmd = node.Command("systemctl", "enable", "krustlet")
Enable(k) ==
    /\ pc[k] = "enable"
    /\ \E ok \in BOOLEAN :
         /\ log' = [log EXCEPT ![k] = Append(@, Entry("enable", fns[k], NoCSR, NoContent, ok))]
         /\ StepOutcome(k, "enable", ok)
    /\ UNCHANGED <<i, bootconf, getErr, cpConf, variant, allNodes>>
    /\ UNCHANGED mainVars

\* cmd = node.Command("systemctl", "start", "krustlet"); the poll loop
\* that follows starts with i := 0
Start(k) ==
    /\ pc[k] = "start"
    /\ \E ok \in BOOLEAN :
         /\ log' = [log EXCEPT ![k] = Append(@, Entry("start", fns[k], NoCSR, NoContent, ok))]
         /\ StepOutcome(k, "start", ok)
    /\ i' = [i EXCEPT ![k] = 0]
    /\ UNCHANGED <<bootconf, getErr, cpConf, variant, allNodes>>
    /\ UNCHANGED mainVars

\* the loop sleeping after every attempt, the successful one included
PollEntriesSleepAlways(v, poll) ==
    IF v = "bootstrap" THEN <<poll, Sleep>> ELSE <<Sleep, poll>>

\* what one iteration of the poll loop adds to the log:
\*   bootstrap:  Run(); if err == nil { break }; time.Sleep(time.Second)
\*   kubeconfig: time.Sleep(time.Second); Run(); if err == nil { break }
PollEntries(v, poll) ==
    IF v = "bootstrap"
    THEN IF poll.ok THEN <<poll>> ELSE <<poll, Sleep>>
    ELSE <<Sleep, poll>>

\* the loop giving up the recipe, without approve, when the attempts are
\* exhausted
AfterPollGiveUp(v, ok, n) ==
    IF ok THEN "approve"
    ELSE IF PollCond(v, n) THEN "poll" ELSE "returned"

\* where the task is after an iteration whose command returned ok, with
\* n the value of i after the iteration's i++
AfterPoll(v, ok, n) ==
    IF ok THEN "approve"
    ELSE IF PollCond(v, n) THEN "poll" ELSE "approve"

\* one iteration of
\*   for i := 0; i <= limit; i++ {
\*     err = cpNode.Command("kubectl", ..., "get", "csr", node.String()+"-tls").Run()
\*     if err == nil { break } else { logger... } }
\* The loop is entered with i = 0 <= limit, and the condition is evaluated
\* again after each i++.
Poll(k) ==
    /\ pc[k] = "poll"
    /\ \E ok \in BOOLEAN :
         /\ log' = [log EXCEPT ![k] = @ \o
                      PollEntries(variant, Entry("poll", cpNode, CSRName(fns[k]), NoContent, ok))]
         /\ i' = [i EXCEPT ![k] = IF ok THEN @ ELSE @ + 1]
         /\ pc' = [pc EXCEPT ![k] = AfterPoll(variant, ok, IF ok THEN i[k] ELSE i[k] + 1)]
    /\ UNCHANGED <<ret, firstErr, bootconf, getErr, cpConf, variant, allNodes>>
    /\ UNCHANGED mainVars

\* the recipe returning nil whatever the approve command returned
ApproveReturnNil(ok) == NoErr

\* what the recipe returns after the approve command:
\*   if err != nil { return errors.Wrap(err, ...) }; return nil
ApproveReturn(ok) == IF ok THEN NoErr ELSE Wrap("approve", WrapMsg("approve"))

\* cmd = cpNode.Command("kubectl", ..., "certificate", "approve", node.String()+"-tls")
Approve(k) ==
    /\ pc[k] = "approve"
    /\ \E ok \in BOOLEAN :
         /\ log' = [log EXCEPT ![k] = Append(@, Entry("approve", cpNode, CSRName(fns[k]), NoContent, ok))]
         /\ pc' = [pc EXCEPT ![k] = "returned"]
         /\ ret' = [ret EXCEPT ![k] = ApproveReturn(ok)]
         /\ firstErr' = Deliver(ApproveReturn(ok))
    /\ UNCHANGED <<i, bootconf, getErr, cpConf, variant, allNodes>>
    /\ UNCHANGED mainVars

\* the steps of the function UntilErrorConcurrent runs for fns[k]
TaskStep(k) ==
    \/ Download(k)
    \/ ExecuteScript(k)
    \/ Read(k)
    \/ Write(k)
    \/ Enable(k)
    \/ Start(k)
    \/ Poll(k)
    \/ Approve(k)

Next ==
    \/ ListNodes
    \/ SelectWorkers
    \/ SelectCP
    \/ Branch
    \/ Return
    \/ \E k \in Tasks : Download(k)
    \/ \E k \in Tasks : ExecuteScript(k)
    \/ \E k \in Tasks : Read(k)
    \/ \E k \in Tasks : Write(k)
    \/ \E k \in Tasks : Enable(k)
    \/ \E k \in Tasks : Start(k)
    \/ \E k \in Tasks : Poll(k)
    \/ \E k \in Tasks : Approve(k)

Spec == Init /\ [][Next]_vars

\* ---------------------------------------------------------------- properties

\* the tasks joinWorkers started
Started == 1..Len(fns)

IsCmd(e) == e.op # "sleep"
IsPoll(e) == e.op = "poll"
IsApprove(e) == e.op = "approve"
FailedStep(e) == e.op \notin {"poll", "sleep"} /\ ~e.ok

\* the remote operations of task k, in order
Cmds(k) == SelectSeq(log[k], IsCmd)
Polls(k) == SelectSeq(log[k], IsPoll)
Approves(k) == SelectSeq(log[k], IsApprove)

IsError(e) == e # NoErr /\ e # Pending

\* the steps of a recipe in the order of section 5 of the specification
StepRank(op) ==
    CASE op = "download" -> 1
      [] op = "execute"  -> 2
      [] op = "read"     -> 3
      [] op = "write"    -> 4
      [] op = "enable"   -> 5
      [] op = "start"    -> 6
      [] op = "poll"     -> 7
      [] op = "approve"  -> 8

\* b may be issued right after a: a poll follows the start or a failed
\* poll, any other operation follows the successful operation of the step
\* before it
MayFollow(a, b) ==
    IF IsPoll(b)
    THEN (a.op = "start" /\ a.ok) \/ IsPoll(a)
    ELSE StepRank(b.op) = StepRank(a.op) + 1 /\ (a.ok \/ IsPoll(a))

\* C1: within one recipe the remote operations are issued in the order
\* (download, execute, read,) credential write, enable, start, polls,
\* approve: the first operation is the first step, and each operation is
\* issued only after the operation of the step before it returned
\* successfully (a poll also after a failed poll, the approve after a poll).
C1_StepOrder ==
    \A k \in Started :
        LET c == Cmds(k) IN
        /\ c # <<>> => c[1].op = (IF variant = "bootstrap" THEN "download" ELSE "write")
        /\ \A p \in 1..(Len(c) - 1) : MayFollow(c[p], c[p + 1])

\* a recipe that went through every step, with more than one poll attempt
C1_Witness ==
    \E k \in Started :
        /\ pc[k] = "returned"
        /\ Len(Polls(k)) >= 2
        /\ Len(Approves(k)) = 1
        /\ \E p \in 1..Len(log[k]) : log[k][p].op = "write" /\ log[k][p].ok

\* C2: a failed step other than a poll is the last operation of its recipe,
\* and the recipe has returned an error for it; after a failed systemctl
\* start there is neither a poll nor an approve.
C2_FailFast ==
    \A k \in Started :
        LET c == Cmds(k) IN
        \A p \in 1..Len(c) :
            FailedStep(c[p]) =>
                /\ p = Len(c)
                /\ pc[k] = "returned"
                /\ IsError(ret[k])
                /\ ret[k].cause = c[p].op
                /\ c[p].op = "start" => Polls(k) = <<>> /\ Approves(k) = <<>>

\* systemctl start failed in a recipe while another recipe went on
C2_Witness ==
    \E k \in Started :
        /\ log[k] # <<>>
        /\ log[k][Len(log[k])].op = "start"
        /\ ~log[k][Len(log[k])].ok
        /\ \E j \in Started : j # k /\ Approves(j) # <<>>

\* C3 (as claimed): a recipe issues at most 30 get csr attempts in the
\* bootstrap-token version and at most 10 in the static-kubeconfig version.
C3_PollCeiling ==
    \A k \in Started :
        Len(Polls(k)) <= (IF variant = "bootstrap" THEN 30 ELSE 10)

\* C4: a get csr attempt that succeeds is the last poll of the recipe, so
\* the first to succeed, the loop variable counts the failed attempts before
\* it, and it is the last entry of the log with the recipe about to approve,
\* or the last but one with the approve after it: no poll and no sleep in
\* between.
C4_EarlyStop ==
    \A k \in Started :
        LET P == Polls(k)
            n == Len(log[k])
        IN  \A q \in 1..Len(P) :
                P[q].ok =>
                    /\ q = Len(P)
                    /\ q = i[k] + 1
                    /\ \/ /\ log[k][n] = P[q]
                          /\ pc[k] = "approve"
                       \/ /\ n >= 2
                          /\ log[k][n - 1] = P[q]
                          /\ IsApprove(log[k][n])
                          /\ pc[k] = "returned"

\* two recipes that each found the CSR on the second attempt and approved
C4_Witness ==
    /\ Len(fns) >= 2
    /\ \A k \in Started :
        /\ Len(Polls(k)) = 2
        /\ Polls(k)[2].ok
        /\ Len(Approves(k)) = 1

\* every attempt of the recipe failed and the loop is over
Exhausted(k) ==
    /\ Polls(k) # <<>>
    /\ \A q \in 1..Len(Polls(k)) : ~Polls(k)[q].ok
    /\ pc[k] \in {"approve", "returned"}

\* C5: once the polling of a recipe has ended, found or exhausted, the
\* approve is the one operation left: an approve is the last entry of its
\* log, so there is at most one; a recipe that polled and is about to approve
\* has issued none, and one that polled and returned ends with its approve;
\* a recipe returns an error only for a failed operation that is not a poll;
\* after an exhausted poll the error of the recipe is the one of the
\* approve, and an error Execute returns from joinWorkers is the error of
\* one of the recipes.
C5_ApproveAlways ==
    /\ \A k \in Started :
        LET n == Len(log[k])
            lastIsApprove == n > 0 /\ IsApprove(log[k][n])
        IN  /\ \A p \in 1..n : IsApprove(log[k][p]) => p = n
            /\ pc[k] = "approve" => ~lastIsApprove
            /\ (pc[k] = "returned" /\ ~lastIsApprove) => Polls(k) = <<>>
            /\ IsError(ret[k]) => FailedStep(log[k][n])
            /\ (IsError(ret[k]) /\ Exhausted(k)) => ret[k].cause = "approve"
    /\ (mainpc = "returned" /\ fns # <<>> /\ IsError(execRet)) =>
          \E k \in Started : ret[k] = execRet

\* the CSR never appeared, the approve failed, and Execute returned its error
C5_Witness ==
    \E k \in Started :
        /\ Exhausted(k)
        /\ IsError(ret[k])
        /\ mainpc = "returned"
        /\ execRet = ret[k]

AnyFailedCommand ==
    \E k \in Started : \E p \in 1..Len(log[k]) : ~log[k][p].ok

AnyFailedStep ==
    \E k \in Started : \E p \in 1..Len(log[k]) : FailedStep(log[k][p])

\* C6 (as claimed): when any remote command of any recipe failed, Execute
\* returns a non-nil error.
C6_AnyFailureFails ==
    (mainpc = "returned" /\ AnyFailedCommand) => IsError(execRet)

\* C6 (amended): when a remote command other than a get csr poll attempt
\* failed in any recipe, Execute returns a non-nil error.
C6_StepFailureFails ==
    (mainpc = "returned" /\ AnyFailedStep) => IsError(execRet)

\* Execute returned after a step of one of two recipes failed
C6_Witness ==
    /\ mainpc = "returned"
    /\ Len(fns) >= 2
    /\ AnyFailedStep
    /\ IsError(execRet)

\* C7: when Execute has returned from joinWorkers and no remote command of
\* any recipe failed, it returned nil; and when it returned nil every recipe
\* has returned and its last operation is a successful approve.
C7_SuccessBarrier ==
    (mainpc = "returned" /\ fns # <<>>) =>
        /\ ~AnyFailedCommand => execRet = NoErr
        /\ execRet = NoErr =>
              \A k \in Started :
                  /\ pc[k] = "returned"
                  /\ log[k] # <<>>
                  /\ IsApprove(log[k][Len(log[k])])
                  /\ log[k][Len(log[k])].ok

\* two recipes, every command succeeded, Execute returned nil
C7_Witness ==
    /\ mainpc = "returned"
    /\ Len(fns) >= 2
    /\ ~AnyFailedCommand
    /\ execRet = NoErr

\* C8 (as claimed): in the static-kubeconfig version a failed fetch of the
\* kubeconfig aborts the recipe with an error before any file is written
\* or any command issued.
C8_GetFailureAborts ==
    \A k \in Started :
        getErr[k] => /\ log[k] = <<>>
                     /\ pc[k] = "returned"
                     /\ IsError(ret[k])

Steps == {"download", "execute", "read", "write", "enable", "start", "approve"}

\* C9 (as claimed): the message of the error a recipe returned is the
\* message of the step that failed and of no other step.
C9_MessagesDistinct ==
    \A k \in Started :
        IsError(ret[k]) =>
            \A s \in Steps \ {ret[k].cause} : WrapMsg(s) # ret[k].msg

\* the names of the nodes of the krustlet role
KrustletNodes ==
    {allNodes[n].name : n \in {m \in 1..Len(allNodes) : allNodes[m].role = "krustlet"}}

\* C10: once joinWorkers has started the recipes there are as many of them
\* as krustlet nodes, each bound to a krustlet node of its own, every
\* krustlet node has one, and the worker-side operations of a recipe go to
\* the node it is bound to.
C10_OneRecipePerWorker ==
    mainpc \in {"Wait", "returned"} /\ fns # <<>> =>
        /\ Len(fns) = Cardinality(KrustletNodes)
        /\ \A k \in Tasks : pc[k] # "none" <=> k \in Started
        /\ \A j, k \in Started : j # k => fns[j] # fns[k]
        /\ {fns[k] : k \in Started} = KrustletNodes
        /\ \A k \in Started : \A p \in 1..Len(log[k]) :
               log[k][p].op \in {"write", "enable", "start"} => log[k][p].target = fns[k]

\* two krustlet nodes, both recipes started their service
C10_Witness ==
    /\ Len(fns) = 2
    /\ \A k \in Started : \E p \in 1..Len(log[k]) : log[k][p].op = "start"

\* C11: a recipe is never held back by what the others did: as long as it
\* has not returned its next step can be taken, also after another recipe
\* failed and after Execute returned, and when it has returned it ended with
\* its own approve or with a failed step of its own.  Each step adds to the
\* log of the recipe, which stays below the length of a full recipe, so a
\* recipe whose steps are taken does return.
C11_SiblingsRunOn ==
    \A k \in Started :
        IF pc[k] = "returned"
        THEN LET last == log[k][Len(log[k])]
             IN  IsApprove(last) \/ FailedStep(last)
        ELSE /\ ENABLED TaskStep(k)
             /\ Len(log[k]) <= 2 * (PollLimit(variant) + 1) + 6

\* a recipe failed, Execute returned its error, another recipe is polling
C11_Witness ==
    \E j, k \in Started :
        /\ j # k
        /\ IsError(ret[j])
        /\ mainpc = "returned"
        /\ execRet = ret[j]
        /\ pc[k] = "poll"
        /\ Polls(k) # <<>>

\* C12: the credential write and systemctl enable/start of a recipe go to
\* the node the recipe is bound to, which is no other recipe's node; every
\* other command goes to the first node of the control-plane selection, and
\* the polls and the approve name the CSR of the recipe's own node.
C12_CommandTargets ==
    \A k \in Started :
        \A p \in 1..Len(log[k]) :
            LET e == log[k][p] IN
            /\ e.op \in {"write", "enable", "start"} =>
                  /\ e.target = fns[k]
                  /\ \A j \in Started : j # k => e.target # fns[j]
                  /\ e.csr = NoCSR
            /\ e.op \in {"download", "execute", "read", "poll", "approve"} =>
                  e.target = cpNodes[1]
            /\ e.op \in {"poll", "approve"} =>
                  /\ e.csr = <<fns[k], "-tls">>
                  /\ \A j \in Started : j # k => e.csr # <<fns[j], "-tls">>
            /\ e.op \in {"download", "execute", "read"} => e.csr = NoCSR

\* two control-plane nodes, a recipe of the bootstrap-token version approved
C12_Witness ==
    /\ Len(cpNodes) = 2
    /\ variant = "bootstrap"
    /\ \E k \in Started : pc[k] = "returned" /\ IsApprove(log[k][Len(log[k])])

\* C13 (as claimed): Execute never reaches cpNodes[0] with an empty cpNodes.
C13_NoPanic == mainpc # "panic"

\* C14: with no krustlet node no command is issued, no status call is made
\* and Execute does not panic; unless listing or selecting the nodes failed
\* it returns nil.
C14_NoWorkersNoEffect ==
    KrustletNodes = {} =>
        /\ \A k \in Tasks : log[k] = <<>> /\ pc[k] = "none"
        /\ status = <<>>
        /\ mainpc # "panic"
        /\ (mainpc = "returned" /\ execRet.cause \notin {"Nodes", "SelectNodesByRole"}) =>
              execRet = NoErr

\* no krustlet node, some control-plane node, Execute returned nil
C14_Witness ==
    /\ KrustletNodes = {}
    /\ cpNodes # <<>>
    /\ mainpc = "returned"
    /\ execRet = NoErr

\* C15 (as claimed): once Execute has returned no recipe issues a command.
C15_QuiescentAfterReturn == [][mainpc = "returned" => log' = log]_vars

\* C15 (amended): once Execute has returned nil no recipe issues a command.
C15_QuiescentAfterSuccess ==
    [][(mainpc = "returned" /\ execRet = NoErr) => log' = log]_vars

\* Execute returned nil for two recipes, one of which saw a failed poll
C15_Witness ==
    /\ mainpc = "returned"
    /\ execRet = NoErr
    /\ Len(fns) >= 2
    /\ \E k \in Started : Len(Polls(k)) >= 2

\* C16 (as claimed): in the bootstrap-token version the content a recipe
\* writes to its worker is the content its own run of the script generated.
C16_OwnBootstrapConf ==
    variant = "bootstrap" =>
        \A k \in Started :
            \A p \in 1..Len(log[k]) :
                (log[k][p].op = "write" /\ log[k][p].ok) =>
                    log[k][p].content = GeneratedConf(k)

\* C17: Status.Start is the first status call, made once and before any
\* command; End(true) is called only when every recipe returned nil and is
\* followed by End(false); when a recipe returned an error End(true) is not
\* called, and once joinWorkers has returned End(false) was called once.
C17_StatusCalls ==
    /\ status \in {<<>>, <<"Start">>, <<"Start", "End(false)">>,
                   <<"Start", "End(true)", "End(false)">>}
    /\ (\E k \in Tasks : log[k] # <<>>) => (status # <<>> /\ status[1] = "Start")
    /\ Len(status) = 3 => \A k \in Started : ret[k] = NoErr
    /\ (\E k \in Started : IsError(ret[k])) =>
          /\ Len(status) <= 2
          /\ mainpc = "returned" => status = <<"Start", "End(false)">>
    /\ (mainpc = "returned" /\ fns # <<>>) => Len(status) >= 2

\* a recipe failed and joinWorkers returned
C17_Witness ==
    /\ mainpc = "returned"
    /\ Len(fns) >= 2
    /\ status = <<"Start", "End(false)">>
    /\ \E k \in Started : IsError(ret[k])

\* C18 (as claimed): Execute returns: whenever no step is left to take,
\* Execute has returned.
C18_ExecuteReturns == mainpc = "returned" \/ ENABLED Next

====
